---------------------------- MODULE Spec2Model ----------------------------
(***************************************************************************)
(* Fluidoracle hybrid retrieval engine (core/retrieval/hybrid_search.py)   *)
(* and verified query layer (core/retrieval/verified_query.py).            *)
(*                                                                         *)
(* Numbers.  Python floats are modelled exactly where the code compares or *)
(* sorts them: a score that is not yet rounded is a rational [n, d]; a     *)
(* score after round(x, 4) is an integer count of 1e-4; a raw channel      *)
(* score is an integer count of 1e-5.                                      *)
(***************************************************************************)
EXTENDS Integers, Sequences, FiniteSets, TLC

VARIABLES
    hashOrder,      \* iteration order of a Python set of child ids (fixed per process)
    pc,             \* position of the invocation in flight
    args,           \* arguments (and environment draws) of the invocation in flight
    semantic_hits,  \* search(): result of _semantic_search
    bm25_hits,      \* search(): result of _bm25_search
    candidates,     \* search(): result of _merge_results
    resolved,       \* search(): result of _resolve_parents
    results,        \* search(): clean_results / assess_confidence(results)
    response,       \* what the invocation handed back to its caller
    vendorCache,    \* verified_query._vendor_patterns_cache
    gapLog,         \* lines of the file at GAP_TRACKER_PATH
    env,            \* what the collaborators answered to the invocation in flight,
                    \* which of them it called, what it printed, and the
                    \* locals sem_w, bm25_w of search()
    calls,          \* verified_query invocations started so far (the clock)
    hist,           \* history: invocations that ended LOW, that returned gap_logged
    handles,        \* hybrid_search globals _chroma_client, _openai_client,
                    \* _bm25_data["default"], _cross_encoder
    loads,          \* history: how often each handle's loader has run
    threads,        \* worker threads: the lazy getter each is in, and where
    indexFile,      \* bm25_index.pkl on disk
    builder,        \* build_bm25_index in the ingestion process
    bm25_data,      \* hybrid_search global _bm25_data, by cache key, in a process
                    \* that serves several verticals
    disk            \* the BM25 pickle of each vertical on disk

vars == <<hashOrder, pc, args, semantic_hits, bm25_hits, candidates, resolved,
          results, response, vendorCache, gapLog, env, calls, hist,
          handles, loads, threads, indexFile, builder, bm25_data, disk>>

\* what only the threaded view of the engine moves
conc == <<handles, loads, threads, indexFile, builder, bm25_data, disk>>

locals == <<semantic_hits, bm25_hits, candidates, resolved, results>>

None == "None"

-----------------------------------------------------------------------------
(* Bounds of the model *)

MaxFuseSem == 4     \* longest semantic hit list handed to fusion
MaxFuseBm  == 2     \* longest keyword hit list handed to fusion
MaxResults == 3     \* longest result list handed to assess_confidence on its own
MaxHits    == 2     \* longest hit list of a channel in a search() invocation
MaxHitsVQ  == 1     \* longest hit list of a channel in a verified_query() invocation
MaxCalls   == 2     \* verified_query() invocations in one run

-----------------------------------------------------------------------------
(* Rationals and rounding *)

Rat(n, d) == [n |-> n, d |-> d]
RLess(a, b) == a.n * b.d < b.n * a.d
RLeq(a, b)  == a.n * b.d <= b.n * a.d
RAdd(a, b)  == Rat(a.n * b.d + b.n * a.d, a.d * b.d)
RDivInt(a, k) == Rat(a.n, a.d * k)
Max(a, b) == IF a >= b THEN a ELSE b
Min(a, b) == IF a <= b THEN a ELSE b

\* round(x, 4): the nearest count of 1e-4, ties to even
Round4(r) ==
    LET q   == (r.n * 10000) \div r.d
        rem == (r.n * 10000) % r.d
    IN  IF 2 * rem > r.d \/ (2 * rem = r.d /\ q % 2 = 1) THEN q + 1 ELSE q

\* a raw channel score (count of 1e-5) as a rational
Raw(x) == Rat(x, 100000)

-----------------------------------------------------------------------------
(* The indexed corpus: child chunks, their metadata, the parent chunks *)

Children == {"c1", "c2", "c3", "c4", "c5"}

\* metadata.parent_id; c5 was ingested without one
MetaParent ==
    [c \in Children |->
        CASE c = "c1" -> "p1" [] c = "c2" -> "p1" [] c = "c3" -> "p2"
          [] c = "c4" -> "p3" [] OTHER -> None]

\* metadata.source
MetaSource ==
    [c \in Children |->
        CASE c = "c1" -> "pall_catalog.pdf" [] c = "c2" -> "pall_catalog.pdf"
          [] c = "c3" -> "hydac_filters.pdf" [] c = "c4" -> "iso_4406.md"
          [] OTHER -> "iso_4406.md"]

-----------------------------------------------------------------------------
(* Config *)

SEMANTIC_WEIGHT == Rat(3, 5)
BM25_WEIGHT == Rat(2, 5)
SPEC_SEMANTIC_WEIGHT == Rat(1, 4)
SPEC_BM25_WEIGHT == Rat(3, 4)
RERANK_CANDIDATES == 20
FINAL_TOP_K == 10
RRF_K == 60

-----------------------------------------------------------------------------
(* Query classifier *)

QIso     == "ISO 4406 cleanliness code 16/14/11"
QGeneral == "hydraulic filter"
Queries  == {QIso, QGeneral}

\* further queries put to the classifier, and the empty query
QEmpty == ""
ClassifierQueries ==
    {"nas 1638 class 6", "DHP-1234 element", "10 micron element", "to 12345",
     "ISO 44", "DHP-123", "beta value"}

\* the queries in which _SPEC_QUERY_PATTERNS.search finds a match: ISO\s*\d{3,5}
\* in QIso, NAS\s*\d{3,4} under IGNORECASE, \b[A-Z]{2,4}[-\s]?\d{4,} in
\* "DHP-1234" and (IGNORECASE again) in "to 12345", micron; "ISO 44" has too
\* few digits for the ISO branch, "DHP-123" too few for the part number branch
SpecQueries == {QIso, "nas 1638 class 6", "DHP-1234 element", "10 micron element",
                "to 12345"}

\* slip: the pattern compiled without re.IGNORECASE
SpecPatternMatchesCaseSensitive(query) ==
    query \in SpecQueries \ {"nas 1638 class 6", "10 micron element", "to 12345"}

\* _SPEC_QUERY_PATTERNS.search(query)
SpecPatternMatches(query) == query \in SpecQueries

\* tokenize_for_bm25(query) == []: the token pattern needs a letter or digit
NoTokens(query) == query = QEmpty

\* slip: the default profile whatever the query
AdaptiveWeightsAlwaysDefault(query) == <<SEMANTIC_WEIGHT, BM25_WEIGHT>>

_adaptive_weights(query) ==
    IF SpecPatternMatches(query)
    THEN <<SPEC_SEMANTIC_WEIGHT, SPEC_BM25_WEIGHT>>
    ELSE <<SEMANTIC_WEIGHT, BM25_WEIGHT>>

-----------------------------------------------------------------------------
(* Stable sort, descending, as list.sort(key=..., reverse=True) *)

\* x goes behind every element whose key is not smaller than its own
InsertDesc(x, s, f) ==
    LET k == Cardinality({i \in 1..Len(s) : ~RLess(s[i][f], x[f])})
    IN  SubSeq(s, 1, k) \o <<x>> \o SubSeq(s, k + 1, Len(s))

RECURSIVE SortDescBy(_, _)
SortDescBy(seq, f) ==
    IF seq = <<>> THEN <<>>
    ELSE InsertDesc(seq[Len(seq)], SortDescBy(SubSeq(seq, 1, Len(seq) - 1), f), f)

\* slip: the cut left out
TruncateKeepsAll(seq, k) == seq

Truncate(seq, k) == SubSeq(seq, 1, Min(k, Len(seq)))

\* the elements of set S of child ids in the order a process whose string
\* hashing lays sets out as order iterates the set
IterOrderIn(order, S) ==
    LET idx == {i \in 1..Len(order) : order[i] \in S}
        F[i \in 0..Cardinality(idx)] ==
            IF i = 0 THEN <<>>
            ELSE LET j == CHOOSE j \in idx :
                            Cardinality({m \in idx : m < j}) = i - 1
                 IN  Append(F[i - 1], order[j])
    IN  F[Cardinality(idx)]

\* the same in this process
IterOrder(S) == IterOrderIn(hashOrder, S)

-----------------------------------------------------------------------------
(* Stage 1: reciprocal rank fusion *)

\* rank maps: the last position of a child id wins, a missing id gets len + 1
RankIn(hits, cid) ==
    LET at == {i \in 1..Len(hits) : hits[i].child_id = cid}
    IN  IF at = {} THEN Len(hits) + 1 ELSE CHOOSE i \in at : \A j \in at : j <= i

IdsOf(hits) == {hits[i].child_id : i \in 1..Len(hits)}

\* hit_data[cid] after the loop over semantic_hits + bm25_hits
HitData(hits, cid) ==
    LET at    == {i \in 1..Len(hits) : hits[i].child_id = cid}
        first == CHOOSE i \in at : \A j \in at : i <= j
        sems  == {i \in at : hits[i].semantic_score > 0}
        bms   == {i \in at : hits[i].bm25_score > 0}
        lastOf(S) == CHOOSE i \in S : \A j \in S : j <= i
    IN  [child_id       |-> cid,
         source         |-> hits[first].source,
         semantic_score |-> IF sems = {} THEN 0 ELSE hits[lastOf(sems)].semantic_score,
         bm25_score     |-> IF bms = {} THEN 0 ELSE hits[lastOf(bms)].bm25_score]

\* slip: the docstring's formula, 1/(k + rank) for each channel
CombinedScoreUnweighted(sem, bm, cid, sw, bw) ==
    RAdd(Rat(1, RRF_K + RankIn(sem, cid)), Rat(1, RRF_K + RankIn(bm, cid)))

CombinedScore(sem, bm, cid, sw, bw) ==
    RAdd(RDivInt(sw, RRF_K + RankIn(sem, cid)),
         RDivInt(bw, RRF_K + RankIn(bm, cid)))

\* slip: the tag of the hit's own channel record is kept
OriginOfFirstHit(sem, bm, cid) == IF cid \in IdsOf(sem) THEN "semantic" ELSE "both"

Origin(sem, bm, cid) ==
    IF cid \in IdsOf(sem) /\ cid \in IdsOf(bm) THEN "both"
    ELSE IF cid \in IdsOf(sem) THEN "semantic" ELSE "bm25"

MergeEntry(sem, bm, cid, sw, bw) ==
    [HitData(sem \o bm, cid) EXCEPT
        !.source = Origin(sem, bm, cid)]
    @@ [combined_score |-> CombinedScore(sem, bm, cid, sw, bw)]

\* _merge_results in a process with set iteration order order
MergeIn(order, sem, bm, max_candidates, sw, bw) ==
    LET all_ids == IterOrderIn(order, IdsOf(sem) \cup IdsOf(bm))
        merged  == [i \in 1..Len(all_ids) |-> MergeEntry(sem, bm, all_ids[i], sw, bw)]
    IN  Truncate(SortDescBy(merged, "combined_score"), max_candidates)

_merge_results(sem, bm, max_candidates, sw, bw) ==
    MergeIn(hashOrder, sem, bm, max_candidates, sw, bw)

-----------------------------------------------------------------------------
(* Chunk texts: a text is a sequence of whitespace separated words; word k  *)
(* written with a capital letter is -k, so that lower() has work to do      *)

ChildText ==
    [c \in Children |->
        CASE c = "c1" -> <<1, 2, 3>> [] c = "c2" -> <<-3, 4>> [] c = "c3" -> <<5, 6>>
          [] c = "c4" -> <<7, -8>> [] OTHER -> <<9>>]

Parents == {"p1", "p2", "p3"}

ParentText ==
    [p \in Parents |->
        CASE p = "p1" -> <<1, 2, 3, -3, 4, 10>>
          [] p = "p2" -> <<5, 6, 11, 12, 13, 14, 15, 16, 10>>
          [] OTHER -> <<7, -8, 1, 2>>]

Metadata(c) ==
    IF MetaParent[c] = None THEN [source |-> MetaSource[c]]
    ELSE [source |-> MetaSource[c], parent_id |-> MetaParent[c]]

\* dict.get(key, default) on a metadata record
Get(meta, key, default) == IF key \in DOMAIN meta THEN meta[key] ELSE default

-----------------------------------------------------------------------------
(* Stage 2: parent resolution *)

\* the parent store as one call sees it: the collection lookup raises
\* ("missing"), the fetch raises ("fetch_raises") or the fetch returns the
\* documents of the ids it holds ("ok", have)
StoreMissing == [kind |-> "missing", have |-> {}]
StoreFetchRaises == [kind |-> "fetch_raises", have |-> {}]
StoreOk(have) == [kind |-> "ok", have |-> have]

ParentIdOf(c) == Get(Metadata(c.child_id), "parent_id", c.child_id)

\* slip: every candidate replaces the entry of its parent
BestPerParentLastWins(cands) ==
    LET firsts == {j \in 1..Len(cands) :
                      \A k \in 1..(j - 1) : ParentIdOf(cands[k]) # ParentIdOf(cands[j])}
        nth(i) == CHOOSE j \in firsts : Cardinality({m \in firsts : m < j}) = i - 1
        lastOf(pid) == CHOOSE j \in 1..Len(cands) :
                          /\ ParentIdOf(cands[j]) = pid
                          /\ \A k \in (j + 1)..Len(cands) : ParentIdOf(cands[k]) # pid
    IN  [i \in 1..Cardinality(firsts) |->
            LET pid == ParentIdOf(cands[nth(i)])
            IN  cands[lastOf(pid)] @@ [parent_id |-> pid]]

\* best_per_parent after the loop: a dict keeps the position of a key's first
\* insertion; a later candidate replaces the value only on a strictly higher
\* combined_score
RECURSIVE BestPerParent(_)
BestPerParent(cands) ==
    IF cands = <<>> THEN <<>>
    ELSE LET n    == Len(cands)
             best == BestPerParent(SubSeq(cands, 1, n - 1))
             c    == cands[n]
             pid  == ParentIdOf(c)
             at   == {i \in 1..Len(best) : best[i].parent_id = pid}
             new  == c @@ [parent_id |-> pid]
         IN  IF at = {} THEN Append(best, new)
             ELSE LET i == CHOOSE i \in at : TRUE
                  IN  IF RLess(best[i].combined_score, c.combined_score)
                      THEN [best EXCEPT ![i] = new]
                      ELSE best

ParentTextFor(store, pid, child_text) ==
    IF store.kind = "ok" /\ pid \in store.have THEN ParentText[pid] ELSE child_text

_resolve_parents(cands, store) ==
    IF store.kind = "missing"
    THEN [i \in 1..Len(cands) |->
            cands[i] @@ [parent_id   |-> cands[i].child_id,
                         parent_text |-> ChildText[cands[i].child_id]]]
    ELSE LET best == BestPerParent(cands)
             enriched ==
                [i \in 1..Len(best) |->
                    best[i] @@ [parent_text |->
                        ParentTextFor(store, best[i].parent_id,
                                      ChildText[best[i].child_id])]]
         IN  SortDescBy(enriched, "combined_score")

-----------------------------------------------------------------------------
(* Stage 3: cross-encoder reranking *)

\* logits the cross-encoder may return (count of 1e-6)
Logits == {-3000000, -405465, 0, 1098612, 2000000}

\* 1 / (1 + exp(-logit)) to five places, in lowest terms
Sigmoid(logit) ==
    CASE logit = -3000000 -> Rat(4743, 100000)
      [] logit = -405465  -> Rat(2, 5)
      [] logit = 0        -> Rat(1, 2)
      [] logit = 1098612  -> Rat(3, 4)
      [] OTHER            -> Rat(1101, 1250)

\* _rerank without its sort: the first top_k candidates in the order received
RerankWithoutSort(cands, top_k, predict) ==
    Truncate([i \in 1..Len(cands) |->
                cands[i] @@ [rerank_score |-> Sigmoid(predict[cands[i].parent_text])]],
             top_k)

\* slip: the cut at top_k made before the sort
RerankTruncatesFirst(cands, top_k, predict) ==
    SortDescBy([i \in 1..Min(top_k, Len(cands)) |->
                   cands[i] @@ [rerank_score |-> Sigmoid(predict[cands[i].parent_text])]],
               "rerank_score")

\* predict is the cross-encoder's answer: parent_text -> logit
_rerank(cands, top_k, predict) ==
    IF cands = <<>> THEN <<>>
    ELSE LET scored == [i \in 1..Len(cands) |->
                          cands[i] @@ [rerank_score |-> Sigmoid(predict[cands[i].parent_text])]]
         IN  Truncate(SortDescBy(scored, "rerank_score"), top_k)

\* slip: without the reranker every result is given the full score
NoRerankFullScore(res, top_k) ==
    LET cut == Truncate(res, top_k)
    IN  [i \in 1..Len(cut) |-> cut[i] @@ [rerank_score |-> Rat(1, 1)]]

\* the branch of search() taken with use_reranker = False
NoRerank(res, top_k) ==
    LET cut == Truncate(res, top_k)
    IN  [i \in 1..Len(cut) |-> cut[i] @@ [rerank_score |-> cut[i].combined_score]]

\* "Clean up output format"
CleanResult(r) ==
    [parent_id      |-> r.parent_id,
     parent_text    |-> r.parent_text,
     child_text     |-> ChildText[r.child_id],
     source         |-> Metadata(r.child_id).source,
     rerank_score   |-> Round4(r.rerank_score),
     semantic_score |-> Round4(Raw(r.semantic_score)),
     bm25_score     |-> Round4(Raw(r.bm25_score)),
     combined_score |-> Round4(r.combined_score),
     metadata       |-> Metadata(r.child_id)]

CleanResults(rs) == [i \in 1..Len(rs) |-> CleanResult(rs[i])]

-----------------------------------------------------------------------------
(* Vendor registry *)

\* manufacturers.filename_patterns of oracle.db in row order; a compiled
\* pattern is modelled by the source names its search() accepts
VendorRegistry ==
    << [matches |-> {"pall_catalog.pdf"}, vendor |-> "Pall"],
       [matches |-> {"pall_catalog.pdf", "hydac_filters.pdf"}, vendor |-> "Hydac"] >>

\* what _load_vendor_patterns can return: the rows, or [] without oracle.db
VendorLoads == {VendorRegistry, <<>>}

\* _vendor_patterns_cache once _detect_vendor has run
CacheAfterDetect(cache, loaded) == IF cache = None THEN loaded ELSE cache

\* slip: the loop runs to its end and the last matching pattern wins
DetectVendorLastMatch(patterns, source) ==
    LET hit == {i \in 1..Len(patterns) : source \in patterns[i].matches}
    IN  IF hit = {} THEN None
        ELSE patterns[CHOOSE i \in hit : \A j \in hit : j <= i].vendor

\* the loop of _detect_vendor over the cached pattern list
_detect_vendor(patterns, source) ==
    LET hit == {i \in 1..Len(patterns) : source \in patterns[i].matches}
    IN  IF hit = {} THEN None
        ELSE patterns[CHOOSE i \in hit : \A j \in hit : i <= j].vendor

-----------------------------------------------------------------------------
(* Confidence assessment *)

HIGH_CONFIDENCE_THRESHOLD == 7500
MEDIUM_CONFIDENCE_THRESHOLD == 4000

Abs(x) == IF x < 0 THEN -x ELSE x

\* set(text.lower().split())
Words(text) == {Abs(text[i]) : i \in 1..Len(text)}

\* len(words1 & words2) / max(len(words1 | words2), 1)
Overlap(t1, t2) ==
    Rat(Cardinality(Words(t1) \cap Words(t2)),
        Max(Cardinality(Words(t1) \cup Words(t2)), 1))

\* round(x, 3), ties to even
Round3(r) ==
    LET q   == (r.n * 1000) \div r.d
        rem == (r.n * 1000) % r.d
    IN  IF 2 * rem > r.d \/ (2 * rem = r.d /\ q % 2 = 1) THEN q + 1 ELSE q

SeqMax(scores) == CHOOSE m \in {scores[i] : i \in 1..Len(scores)} :
                      \A i \in 1..Len(scores) : scores[i] <= m

SourcesOf(rs) == {rs[i].source : i \in 1..Len(rs)}

\* slip: HIGH without looking at the number of sources
ConfidenceLevelAnySources(top_score, high_conf_count, num_sources) ==
    IF top_score >= HIGH_CONFIDENCE_THRESHOLD /\ high_conf_count >= 2
    THEN "HIGH"
    ELSE IF top_score >= MEDIUM_CONFIDENCE_THRESHOLD THEN "MEDIUM" ELSE "LOW"

ConfidenceLevel(top_score, high_conf_count, num_sources) ==
    IF top_score >= HIGH_CONFIDENCE_THRESHOLD /\ high_conf_count >= 2 /\ num_sources >= 2
    THEN "HIGH"
    ELSE IF top_score >= MEDIUM_CONFIDENCE_THRESHOLD THEN "MEDIUM" ELSE "LOW"

Reasoning(level) ==
    CASE level = "HIGH"   -> "Multiple high-confidence matches"
      [] level = "MEDIUM" -> "Moderate confidence."
      [] OTHER            -> "Low confidence."

\* slip: overlap <= 0.15 instead of < 0.15
ContradictionsAtMost15(rs) ==
    IF Len(rs) >= 2 /\ rs[1].source # rs[2].source
       /\ rs[1].rerank_score >= MEDIUM_CONFIDENCE_THRESHOLD
       /\ rs[2].rerank_score >= MEDIUM_CONFIDENCE_THRESHOLD
       /\ RLeq(Overlap(rs[1].parent_text, rs[2].parent_text), Rat(15, 100))
    THEN << [source_1 |-> rs[1].source, source_2 |-> rs[2].source,
             overlap |-> Round3(Overlap(rs[1].parent_text, rs[2].parent_text))] >>
    ELSE <<>>

Contradictions(rs) ==
    IF Len(rs) >= 2 /\ Cardinality(SourcesOf(rs)) >= 2
    THEN LET r1 == rs[1]
             r2 == rs[2]
             overlap == Overlap(r1.parent_text, r2.parent_text)
         IN  IF /\ r1.source # r2.source
                /\ r1.rerank_score >= MEDIUM_CONFIDENCE_THRESHOLD
                /\ r2.rerank_score >= MEDIUM_CONFIDENCE_THRESHOLD
                /\ RLess(overlap, Rat(15, 100))
             THEN << [source_1 |-> r1.source, source_2 |-> r2.source,
                      overlap |-> Round3(overlap)] >>
             ELSE <<>>
    ELSE <<>>

\* slip: a source without a vendor counted as one more vendor
DominantVendorCountsNone(rs, patterns) ==
    LET vendors == {_detect_vendor(patterns, rs[i].source) : i \in 1..Len(rs)}
    IN  IF Cardinality(vendors) = 1 THEN CHOOSE v \in vendors : TRUE ELSE None

DominantVendor(rs, patterns) ==
    LET vendors == {_detect_vendor(patterns, rs[i].source) : i \in 1..Len(rs)} \ {None}
    IN  IF Cardinality(vendors) = 1 THEN CHOOSE v \in vendors : TRUE ELSE None

\* patterns: the vendor pattern list in force once _detect_vendor has run
assess_confidence(rs, patterns) ==
    IF rs = <<>>
    THEN [level |-> "LOW", top_score |-> 0, num_results |-> 0,
          num_high_confidence |-> 0, num_sources |-> 0, sources |-> {},
          contradictions |-> <<>>,
          reasoning |-> "No relevant documents found in the knowledge base.",
          dominant_vendor |-> None]
    ELSE LET scores == [i \in 1..Len(rs) |-> rs[i].rerank_score]
             top_score == SeqMax(scores)
             high_conf_count ==
                 Cardinality({i \in 1..Len(rs) : scores[i] >= HIGH_CONFIDENCE_THRESHOLD})
             sources == SourcesOf(rs)
             level == ConfidenceLevel(top_score, high_conf_count, Cardinality(sources))
         IN  [level |-> level, top_score |-> top_score, num_results |-> Len(rs),
              num_high_confidence |-> high_conf_count,
              num_sources |-> Cardinality(sources), sources |-> sources,
              contradictions |-> Contradictions(rs),
              reasoning |-> Reasoning(level),
              dominant_vendor |-> DominantVendor(rs, patterns)]

-----------------------------------------------------------------------------
(* verified_query: citations, warnings, gap record *)

\* _humanize_source on the corpus's source names
_humanize_source(source, patterns) ==
    LET vendor == _detect_vendor(patterns, source)
    IN  CASE source = "pall_catalog.pdf" ->
                IF vendor = "Pall" THEN "Pall - Catalog" ELSE "pall catalog"
          [] source = "hydac_filters.pdf" ->
                IF vendor = "Hydac" THEN "Hydac - Filters" ELSE "hydac filters"
          [] OTHER -> "iso 4406"

Citations(rs, patterns) ==
    [i \in 1..Len(rs) |-> <<i, _humanize_source(rs[i].source, patterns)>>]

\* truth value of a Python string or None
Truthy(v) == v # None /\ v # ""

Warnings(confidence) ==
    (IF confidence.level = "LOW" THEN <<"LOW CONFIDENCE">> ELSE <<>>)
    \o [i \in 1..Len(confidence.contradictions) |-> "POTENTIAL CONTRADICTION"]
    \o (IF confidence.num_sources = 1 /\ confidence.num_results > 0
        THEN <<"SINGLE SOURCE">> ELSE <<>>)
    \o (IF Truthy(confidence.dominant_vendor) /\ confidence.num_results > 1
        THEN <<"SINGLE VENDOR">> ELSE <<>>)

GapEntry(now, query, confidence) ==
    [timestamp |-> now, query |-> query,
     confidence_level |-> confidence.level, top_score |-> confidence.top_score,
     num_results |-> confidence.num_results, sources_checked |-> confidence.sources]

-----------------------------------------------------------------------------
(* The two channels as search() sees them *)

\* lists of distinct child ids, best first, as a channel returns them
IdLists(maxLen) ==
    {s \in UNION {[1..n -> Children] : n \in 0..maxLen} :
        \A i, j \in 1..Len(s) : i # j => s[i] # s[j]}

\* cosine distances Chroma reports by rank (count of 1e-5), ascending
SemProfiles == {"near", "far"}
Distance(rank, profile) ==
    IF profile = "near" THEN 4321 + 1111 * (rank - 1) ELSE 98765 + 1111 * (rank - 1)

\* the hits loop of _semantic_search over Chroma's answer
SemanticHits(ids, profile) ==
    [i \in 1..Len(ids) |->
        [child_id |-> ids[i],
         semantic_score |-> Max(0, 100000 - Distance(i, profile)),
         bm25_score |-> 0,
         source |-> "semantic"]]

\* positive BM25 scores by rank (count of 1e-5), descending
BmProfiles == {"strong", "weak"}
Bm25Score(rank, profile) ==
    IF profile = "strong" THEN 187654 - 11111 * (rank - 1) ELSE 1234 - 100 * (rank - 1)

\* the hits loop of _bm25_search over the top scoring documents
Bm25Hits(ids, profile) ==
    [i \in 1..Len(ids) |->
        [child_id |-> ids[i],
         semantic_score |-> 0,
         bm25_score |-> Bm25Score(i, profile),
         source |-> "bm25"]]

HashOrders == { <<"c1", "c2", "c3", "c4", "c5">>, <<"c5", "c4", "c3", "c2", "c1">> }

\* semantic_weight = None, bm25_weight = None: the argument was not passed
NoWeight == [n |-> 0, d |-> 0]

\* slip: a single passed weight is completed by the classifier's value
SearchWeightsFillAdaptive(query, semantic_weight, bm25_weight) ==
    << IF semantic_weight # NoWeight THEN semantic_weight
       ELSE _adaptive_weights(query)[1],
       IF bm25_weight # NoWeight THEN bm25_weight
       ELSE _adaptive_weights(query)[2] >>

\* "Determine weights: explicit override > query-adaptive > config defaults"
SearchWeights(query, semantic_weight, bm25_weight) ==
    IF semantic_weight # NoWeight \/ bm25_weight # NoWeight
    THEN << IF semantic_weight # NoWeight THEN semantic_weight ELSE SEMANTIC_WEIGHT,
            IF bm25_weight # NoWeight THEN bm25_weight ELSE BM25_WEIGHT >>
    ELSE _adaptive_weights(query)

NoArgs == [api |-> None, query |-> ""]
NoEnv == [semantic |-> None, bm25 |-> None, store |-> None, have |-> {},
          console |-> <<>>, called |-> {}, weights |-> <<NoWeight, NoWeight>>, reranker |-> None,
          sink |-> None]
NoHist == [low |-> 0, logged |-> 0]

\* the lazily initialized globals of hybrid_search, by the getter's name
Handles == {"chroma", "openai", "bm25", "cross_encoder"}
Unset == [set |-> FALSE, value |-> 0]
NoFile == [exists |-> FALSE, version |-> 0, written |-> 0]

\* one request at a time: no worker threads, no rebuild
ConcIdle ==
    /\ handles = [h \in Handles |-> Unset]
    /\ loads = [h \in Handles \cup {"vendor_patterns"} |-> 0]
    /\ threads = <<>>
    /\ indexFile = NoFile
    /\ builder = [pc |-> "idle", rebuilds |-> 0]
    /\ bm25_data = <<>>
    /\ disk = <<>>

-----------------------------------------------------------------------------
(* Fusion on its own: the inputs are drawn, _merge_results is applied *)

InitMerge ==
    /\ hashOrder \in HashOrders
    /\ pc = "fuse"
    /\ args \in [query : Queries, semantic_weight : {NoWeight},
                    bm25_weight : {NoWeight}]
    /\ \E ids \in IdLists(MaxFuseSem), p \in SemProfiles :
           semantic_hits = SemanticHits(ids, p)
    /\ \E ids \in IdLists(MaxFuseBm), p \in BmProfiles :
           bm25_hits = Bm25Hits(ids, p)
    /\ candidates = <<>>
    /\ resolved = <<>>
    /\ results = <<>>
    /\ response = None
    /\ vendorCache = None
    /\ gapLog = <<>>
    /\ env = NoEnv
    /\ calls = 0
    /\ hist = NoHist
    /\ ConcIdle

Fuse ==
    /\ pc = "fuse"
    /\ LET w == SearchWeights(args.query, args.semantic_weight, args.bm25_weight)
       IN  candidates' = _merge_results(semantic_hits, bm25_hits,
                                        RERANK_CANDIDATES, w[1], w[2])
    /\ pc' = "fused"
    /\ UNCHANGED <<hashOrder, args, semantic_hits, bm25_hits, resolved, results,
                   response, vendorCache, gapLog, env, calls, hist, conc>>

SpecMerge == InitMerge /\ [][Fuse]_vars

PosOf(cands, cid) == CHOOSE i \in 1..Len(cands) : cands[i].child_id = cid
ScoreOf(cands, cid) == cands[PosOf(cands, cid)].combined_score

\* the case of C7: a specification query fused with the classifier's weights,
\* the keyword channel ranks X first, the semantic channel another item Y
KeywordFirstCase ==
    /\ pc = "fused"
    /\ SpecPatternMatches(args.query)
    /\ semantic_hits # <<>>
    /\ bm25_hits # <<>>
    /\ bm25_hits[1].child_id # semantic_hits[1].child_id

XAboveY ==
    LET X == bm25_hits[1].child_id
        Y == semantic_hits[1].child_id
    IN  /\ RLess(ScoreOf(candidates, Y), ScoreOf(candidates, X))
        /\ PosOf(candidates, X) < PosOf(candidates, Y)

\* C7 as stated: under the (0.25, 0.75) profile the keyword channel's first
\* item X is fused strictly above the semantic channel's first item Y, for
\* every length of the two lists
C7_AnyLength == KeywordFirstCase => XAboveY

\* C7 amended: X is fused strictly above Y whenever X's rank in the semantic
\* list (its position, or len + 1 when it is absent) is at most 4, whatever
\* the raw channel scores are
C7_RankAtMost4 ==
    (KeywordFirstCase /\ RankIn(semantic_hits, bm25_hits[1].child_id) <= 4) => XAboveY

\* X sits at semantic rank 4, Y's raw similarity exceeds X's raw BM25 score,
\* and X leads the fused list
C7_Witness ==
    /\ KeywordFirstCase
    /\ RankIn(semantic_hits, bm25_hits[1].child_id) = 4
    /\ semantic_hits[1].semantic_score > bm25_hits[1].bm25_score
    /\ candidates[1].child_id = bm25_hits[1].child_id

-----------------------------------------------------------------------------
(* The confidence assessor on its own: a result list is drawn,              *)
(* assess_confidence and the warnings of verified_query are applied         *)

\* rerank scores on both sides of the two thresholds
AssessScores == {3999, 4000, 7499, 7500}

\* parent texts: TextA and TextB share 3 words of 20 (overlap 0.15), TextA and
\* TextC share 1 word of 20 (0.05), TextB and TextC share 11 of 13
TextA == <<1, 2, 3, 4, 5, 6, 7, -8, 9, 10>>
TextB == <<8, 9, 10, 11, 12, 13, 14, 15, 16, 17, 18, 19, 20>>
TextC == <<-10, 11, 12, 13, 14, 15, 16, 17, 18, 19, 20, 20>>
AssessTexts == {TextA, TextB, TextC}

AssessSources == {MetaSource[c] : c \in Children}

\* rerank scores of a list search() returns: non-increasing
SortedScores(n) ==
    {sc \in [1..n -> AssessScores] : \A i \in 1..(n - 1) : sc[i] >= sc[i + 1]}

\* result lists as search() returns them; only the texts of the first two
\* results are read by assess_confidence
ResultLists(maxLen) ==
    UNION {{[i \in 1..n |-> [source       |-> src[i],
                             rerank_score |-> sc[i],
                             parent_text  |-> IF i <= 2 THEN tx[i] ELSE TextB]] :
                src \in [1..n -> AssessSources], sc \in SortedScores(n),
                tx \in [1..2 -> AssessTexts]} : n \in 0..maxLen}

InitAssess ==
    /\ hashOrder = <<"c1", "c2", "c3", "c4", "c5">>
    /\ pc = "assess"
    /\ args = NoArgs
    /\ semantic_hits = <<>>
    /\ bm25_hits = <<>>
    /\ candidates = <<>>
    /\ resolved = <<>>
    /\ results \in ResultLists(MaxResults)
    /\ response = None
    /\ vendorCache = None
    /\ gapLog = <<>>
    /\ env = NoEnv
    /\ calls = 0
    /\ hist = NoHist
    /\ ConcIdle

\* assess_confidence(results), then the warnings verified_query derives
Assess ==
    /\ pc = "assess"
    /\ \E loaded \in VendorLoads :
        LET patterns   == CacheAfterDetect(vendorCache, loaded)
            confidence == assess_confidence(results, patterns)
        IN  /\ vendorCache' = IF results = <<>> THEN vendorCache ELSE patterns
            /\ response' = [confidence |-> confidence, warnings |-> Warnings(confidence)]
    /\ pc' = "assessed"
    /\ UNCHANGED <<hashOrder, args, semantic_hits, bm25_hits, candidates, resolved,
                   results, gapLog, env, calls, hist, conc>>

SpecAssess == InitAssess /\ [][Assess]_vars

Assessed == pc = "assessed"

NumAtLeast(rs, threshold) ==
    Cardinality({i \in 1..Len(rs) : rs[i].rerank_score >= threshold})

\* C1: the level is HIGH exactly when the highest rerank_score is >= 0.75, at
\* least 2 results have rerank_score >= 0.75 and the results span at least 2
\* sources; otherwise MEDIUM exactly when the highest rerank_score is >= 0.40;
\* otherwise LOW, which includes the empty list
C1_Levels ==
    Assessed =>
        LET level == response.confidence.level
            high  == /\ NumAtLeast(results, 7500) >= 2
                     /\ \E i, j \in 1..Len(results) : results[i].source # results[j].source
            some40 == \E i \in 1..Len(results) : results[i].rerank_score >= 4000
        IN  /\ level \in {"HIGH", "MEDIUM", "LOW"}
            /\ (level = "HIGH") <=> high
            /\ (level = "MEDIUM") <=> (~high /\ some40)
            /\ (level = "LOW") <=> (~high /\ ~some40)
            /\ results = <<>> => level = "LOW"

\* three results: the two at 0.75 share a source, the third, below 0.40,
\* brings the second source, and the level is HIGH
C1_Witness ==
    /\ Assessed
    /\ Len(results) = 3
    /\ results[1].rerank_score = 7500 /\ results[2].rerank_score = 7500
    /\ results[1].source = results[2].source
    /\ results[3].rerank_score = 3999
    /\ response.confidence.level = "HIGH"

\* Jaccard word overlap of the first two parent texts below 0.15
LowOverlap12 ==
    LET w1 == {Abs(results[1].parent_text[i]) : i \in 1..Len(results[1].parent_text)}
        w2 == {Abs(results[2].parent_text[i]) : i \in 1..Len(results[2].parent_text)}
    IN  100 * Cardinality(w1 \cap w2) < 15 * Cardinality(w1 \cup w2)

\* C8: a contradiction record is emitted exactly when there are at least two
\* results, the first two come from different sources, both have
\* rerank_score >= 0.40 and the Jaccard word overlap of their parent texts is
\* < 0.15; the list never holds more than that one record
C8_Contradiction ==
    Assessed =>
        LET recs == response.confidence.contradictions
            due  == /\ Len(results) >= 2
                    /\ results[1].source # results[2].source
                    /\ results[1].rerank_score >= 4000
                    /\ results[2].rerank_score >= 4000
                    /\ LowOverlap12
        IN  /\ Len(recs) <= 1
            /\ (Len(recs) = 1) <=> due
            /\ Len(recs) = 1 =>
                   /\ recs[1].source_1 = results[1].source
                   /\ recs[1].source_2 = results[2].source

\* the first two results, both at 0.40 and from different sources, overlap by
\* 0.05 and give the one record; a third result from a third source with
\* other text adds none
C8_Witness ==
    /\ Assessed
    /\ Len(results) = 3
    /\ results[1].rerank_score = 4000 /\ results[2].rerank_score = 4000
    /\ results[3].rerank_score = 4000
    /\ Cardinality({results[i].source : i \in 1..3}) = 3
    /\ results[3].parent_text # results[1].parent_text
    /\ results[3].parent_text # results[2].parent_text
    /\ Len(response.confidence.contradictions) = 1
    /\ response.confidence.contradictions[1].overlap = 50

\* the vendors the registry identifies across all results
VendorsIdentified ==
    IF results = <<>> THEN {}
    ELSE {_detect_vendor(vendorCache, results[i].source) : i \in 1..Len(results)} \ {None}

\* C9 as stated: dominant_vendor is set, and the single-vendor warning added,
\* exactly when the registry identifies exactly one vendor across all results
\* and num_results > 1
C9_BothNeedTwoResults ==
    Assessed =>
        LET one == Cardinality(VendorsIdentified) = 1 /\ Len(results) > 1
        IN  /\ (response.confidence.dominant_vendor # None) <=> one
            /\ (\E i \in 1..Len(response.warnings) :
                    response.warnings[i] = "SINGLE VENDOR") <=> one

\* C9 amended: dominant_vendor is set exactly when the registry identifies
\* exactly one vendor across all results, a single result included; the
\* single-vendor warning is added exactly when moreover num_results > 1
C9_DominantVendor ==
    Assessed =>
        LET one == Cardinality(VendorsIdentified) = 1
        IN  /\ (response.confidence.dominant_vendor # None) <=> one
            /\ one => response.confidence.dominant_vendor \in VendorsIdentified
            /\ (\E i \in 1..Len(response.warnings) :
                    response.warnings[i] = "SINGLE VENDOR") <=> (one /\ Len(results) > 1)

\* one vendor document among two neutral ones: dominant_vendor and the warning
C9_Witness ==
    /\ Assessed
    /\ Len(results) = 3
    /\ Cardinality(VendorsIdentified) = 1
    /\ \E i \in 1..3 : _detect_vendor(vendorCache, results[i].source) = None
    /\ response.confidence.dominant_vendor = "Hydac"
    /\ \E i \in 1..Len(response.warnings) : response.warnings[i] = "SINGLE VENDOR"

-----------------------------------------------------------------------------
(* search() and verified_query() stage by stage *)

TopKs == {2, FINAL_TOP_K}

\* how _semantic_search can end: the collection lookup raises (caught, []),
\* count() is 0 ([]), the embeddings call or collection.query raises (not
\* caught), or Chroma answers with ids
SemanticOutcomes(maxLen) ==
    {[kind |-> k, ids |-> <<>>] :
        k \in {"no_collection", "empty_collection", "embed_raises", "query_raises"}}
    \cup {[kind |-> "ok", ids |-> ids] : ids \in IdLists(maxLen)}

\* how _bm25_search can end: load_bm25_index returns None ([]), the load or
\* the scoring raises (not caught), or documents score above zero
Bm25Outcomes(maxLen) ==
    {[kind |-> k, ids |-> <<>>] : k \in {"no_index", "load_raises", "score_raises"}}
    \cup {[kind |-> "ok", ids |-> ids] : ids \in IdLists(maxLen)}

\* slip: a missing collection or index file raises as well
RaisesOnMissing(outcome) ==
    outcome.kind \in {"embed_raises", "query_raises", "load_raises", "score_raises",
                      "no_collection", "no_index"}

Raises(outcome) ==
    outcome.kind \in {"embed_raises", "query_raises", "load_raises", "score_raises"}

\* what _resolve_parents prints (VERBOSE is True): the one message of the
\* missing-collection branch; the except around parent_col.get and the
\* parent_texts.get default print nothing
ParentNotFound == "[!] Parent collection not found. Using child chunks as context."

\* slip: the missing-collection branch without its message
ResolveConsoleSilent(store) == <<>>

ResolveConsole(store) ==
    IF store.kind = "missing" THEN <<ParentNotFound>> ELSE <<>>

\* what the two channels print (VERBOSE is True)
ChildNotFound == "[!] Child collection not found. Have you ingested documents?"
IndexNotFound == "[!] BM25 index not found. Run: py -3.12 ingest.py --rebuild-bm25"
SemanticConsole(outcome) ==
    IF outcome.kind = "no_collection" THEN <<ChildNotFound>> ELSE <<>>
Bm25Console(outcome) ==
    IF outcome.kind = "no_index" THEN <<IndexNotFound>> ELSE <<>>

\* the external calls _semantic_search makes before it returns or raises
SemanticCalls(outcome) ==
    CASE outcome.kind \in {"no_collection", "empty_collection"} -> {}
      [] outcome.kind = "embed_raises" -> {"embeddings.create"}
      [] OTHER -> {"embeddings.create", "collection.query"}

\* the scoring call of _bm25_search; an empty token list returns before it
Bm25Calls(query, outcome) ==
    IF outcome.kind \in {"no_index", "load_raises"} \/ NoTokens(query)
    THEN {} ELSE {"bm25.get_scores"}

\* _bm25_search raises: in the load, or in the scoring if it gets there
Bm25Raises(query, outcome) ==
    Raises(outcome) /\ ~(outcome.kind = "score_raises" /\ NoTokens(query))

\* the parent collection as _resolve_parents finds it
Stores == {StoreMissing, StoreFetchRaises, StoreOk(Parents), StoreOk({"p1", "p3"})}

\* cross-encoder models: the logit each gives to a (query, parent_text) pair
Encoders == {"long", "short", "low", "high"}
Predict(enc, text) ==
    CASE enc = "long"  -> IF Len(text) >= 6 THEN 2000000
                          ELSE IF Len(text) >= 3 THEN 1098612 ELSE -405465
      [] enc = "short" -> IF Len(text) <= 2 THEN 2000000
                          ELSE IF Len(text) <= 4 THEN 0 ELSE -3000000
      [] enc = "low"   -> -3000000
      [] OTHER         -> 2000000

AllTexts == {ChildText[c] : c \in Children} \cup {ParentText[p] : p \in Parents}
PredictOf(enc) == [t \in AllTexts |-> Predict(enc, t)]

\* a gap test that also fires on MEDIUM
ShouldLogGapBelowHigh(level) == level # "HIGH"

\* "if confidence['level'] == 'LOW'" ahead of log_gap
ShouldLogGap(level) == level = "LOW"

\* the process before its first request; no two fused scores of a request
\* tie, so one iteration order stands for all
InitPipeline ==
    /\ hashOrder = <<"c1", "c2", "c3", "c4", "c5">>
    /\ pc = "idle"
    /\ args = NoArgs
    /\ semantic_hits = <<>>
    /\ bm25_hits = <<>>
    /\ candidates = <<>>
    /\ resolved = <<>>
    /\ results = <<>>
    /\ response = None
    /\ vendorCache = None
    /\ gapLog = <<>>
    /\ env = NoEnv
    /\ calls = 0
    /\ hist = NoHist
    /\ ConcIdle

\* a caller enters api with its arguments; the collaborators' answers to the
\* two channel calls are fixed by the state of the stores at that moment
Invoke(api, maxLen, topKs, queries, weights) ==
    /\ pc = "idle"
    /\ api = "verified_query" => calls < MaxCalls
    /\ \E q \in queries, k \in topKs, rr \in BOOLEAN, w \in weights :
           args' = [api |-> api, query |-> q, top_k |-> k, use_reranker |-> rr,
                    semantic_weight |-> w[1], bm25_weight |-> w[2]]
    /\ \E so \in SemanticOutcomes(maxLen), bo \in Bm25Outcomes(maxLen) :
           env' = [NoEnv EXCEPT !.semantic = so, !.bm25 = bo]
    /\ calls' = IF api = "verified_query" THEN calls + 1 ELSE calls
    /\ pc' = "stage1"
    /\ semantic_hits' = <<>>
    /\ bm25_hits' = <<>>
    /\ candidates' = <<>>
    /\ resolved' = <<>>
    /\ results' = <<>>
    /\ response' = None
    /\ UNCHANGED <<hashOrder, vendorCache, gapLog, hist, conc>>

\* how search() hands its list back: to its caller, or to verified_query
AfterSearch == IF args.api = "search" THEN "returned" ELSE "assess"

\* Stage 1 of search(): _semantic_search, _bm25_search, _merge_results and
\* the early return on no candidates
Stage1 ==
    /\ pc = "stage1"
    /\ LET w == SearchWeights(args.query, args.semantic_weight, args.bm25_weight)
       IN
       IF Raises(env.semantic)
       THEN /\ pc' = "raised"
            /\ response' = [raised |-> env.semantic.kind]
            /\ env' = [env EXCEPT !.weights = w,
                                  !.called = SemanticCalls(env.semantic)]
            /\ UNCHANGED locals
       ELSE IF Bm25Raises(args.query, env.bm25)
       THEN /\ pc' = "raised"
            /\ response' = [raised |-> env.bm25.kind]
            /\ env' = [env EXCEPT !.weights = w,
                                  !.console = SemanticConsole(env.semantic),
                                  !.called = SemanticCalls(env.semantic)
                                             \cup Bm25Calls(args.query, env.bm25)]
            /\ semantic_hits' = SemanticHits(env.semantic.ids, "near")
            /\ UNCHANGED <<bm25_hits, candidates, resolved, results>>
       ELSE LET sem == SemanticHits(env.semantic.ids, "near")
                bm  == IF NoTokens(args.query) THEN <<>>
                       ELSE Bm25Hits(env.bm25.ids, "strong")
                merged == _merge_results(sem, bm, RERANK_CANDIDATES, w[1], w[2])
            IN  /\ semantic_hits' = sem
                /\ bm25_hits' = bm
                /\ candidates' = merged
                /\ env' = [env EXCEPT !.weights = w,
                                      !.console = SemanticConsole(env.semantic)
                                                  \o Bm25Console(env.bm25),
                                      !.called = SemanticCalls(env.semantic)
                                                 \cup Bm25Calls(args.query, env.bm25)]
                /\ pc' = IF merged = <<>> THEN AfterSearch ELSE "resolve"
                /\ response' = IF merged = <<>> /\ args.api = "search"
                               THEN [results |-> <<>>] ELSE response
                /\ UNCHANGED <<resolved, results>>
    /\ UNCHANGED <<hashOrder, args, vendorCache, gapLog, calls, hist, conc>>

\* Stage 2 of search(), and Stage 3 with the clean-up when use_reranker is False
Stage2 ==
    /\ pc = "resolve"
    /\ \E store \in Stores :
        LET res == _resolve_parents(candidates, store)
            out == CleanResults(NoRerank(res, args.top_k))
        IN  /\ env' = [env EXCEPT !.store = store.kind, !.have = store.have,
                                  !.console = @ \o ResolveConsole(store)]
            /\ resolved' = res
            /\ IF args.use_reranker
               THEN /\ pc' = "rerank"
                    /\ UNCHANGED <<results, response>>
               ELSE /\ results' = out
                    /\ pc' = AfterSearch
                    /\ response' = IF args.api = "search"
                                   THEN [results |-> out] ELSE response
    /\ UNCHANGED <<hashOrder, args, semantic_hits, bm25_hits, candidates,
                   vendorCache, gapLog, calls, hist, conc>>

\* Stage 3 of search() with the cross-encoder and the clean-up; loading the
\* model or predict() can raise, and nothing in _rerank or search() catches it
Stage3 ==
    /\ pc = "rerank"
    /\ \/ \E failure \in {"model_load_raises", "predict_raises"} :
            /\ env' = [env EXCEPT !.reranker = failure]
            /\ pc' = "raised"
            /\ response' = [raised |-> failure]
            /\ UNCHANGED results
       \/ \E enc \in Encoders :
            LET out == CleanResults(_rerank(resolved, args.top_k, PredictOf(enc)))
            IN  /\ env' = [env EXCEPT !.reranker = enc]
                /\ results' = out
                /\ pc' = AfterSearch
                /\ response' = IF args.api = "search"
                               THEN [results |-> out] ELSE response
    /\ UNCHANGED <<hashOrder, args, semantic_hits, bm25_hits, candidates, resolved,
                   vendorCache, gapLog, calls, hist, conc>>

\* the rest of verified_query(): assess_confidence, citations, warnings,
\* log_gap on LOW, the returned dict; open() in log_gap can raise
Verify ==
    /\ pc = "assess"
    /\ \E loaded \in VendorLoads, sink \in {"ok", "open_raises"} :
        LET patterns   == CacheAfterDetect(vendorCache, loaded)
            confidence == assess_confidence(results, patterns)
            log        == ShouldLogGap(confidence.level)
            low        == IF confidence.level = "LOW" THEN 1 ELSE 0
        IN  /\ vendorCache' = IF results = <<>> THEN vendorCache ELSE patterns
            /\ IF log /\ sink = "open_raises"
               THEN /\ env' = [env EXCEPT !.sink = sink]
                    /\ pc' = "raised"
                    /\ response' = [raised |-> "open_raises"]
                    /\ hist' = [hist EXCEPT !.low = @ + low]
                    /\ UNCHANGED gapLog
               ELSE /\ env' = [env EXCEPT !.sink = IF log THEN sink ELSE None]
                    /\ gapLog' = IF log
                                 THEN Append(gapLog, GapEntry(calls, args.query, confidence))
                                 ELSE gapLog
                    /\ pc' = "returned"
                    /\ response' = [query      |-> args.query,
                                    results    |-> results,
                                    confidence |-> confidence,
                                    citations  |-> Citations(results, patterns),
                                    warnings   |-> Warnings(confidence),
                                    gap_logged |-> log]
                    /\ hist' = [low    |-> hist.low + low,
                                logged |-> hist.logged + (IF log THEN 1 ELSE 0)]
    /\ UNCHANGED <<hashOrder, args, locals, calls, conc>>

\* the caller has taken the value or the exception
Return ==
    /\ pc \in {"returned", "raised"}
    /\ pc' = "idle"
    /\ args' = NoArgs
    /\ env' = NoEnv
    /\ semantic_hits' = <<>>
    /\ bm25_hits' = <<>>
    /\ candidates' = <<>>
    /\ resolved' = <<>>
    /\ results' = <<>>
    /\ response' = None
    /\ UNCHANGED <<hashOrder, vendorCache, gapLog, calls, hist, conc>>

\* search() called on its own
InvokeSearch == Invoke("search", MaxHits, TopKs, Queries, {<<NoWeight, NoWeight>>})
InitSearch == InitPipeline
NextSearch == InvokeSearch \/ Stage1 \/ Stage2 \/ Stage3 \/ Return
SpecSearch == InitSearch /\ [][NextSearch]_vars

\* verified_query() called MaxCalls times with its default top_k
VERIFIED_QUERY_TOP_K == 10
InvokeVerifiedQuery ==
    Invoke("verified_query", MaxHitsVQ, {VERIFIED_QUERY_TOP_K}, Queries, {<<NoWeight, NoWeight>>})
Init == InitPipeline
Next == InvokeVerifiedQuery \/ Stage1 \/ Stage2 \/ Stage3 \/ Verify \/ Return
Spec == Init /\ [][Next]_vars

-----------------------------------------------------------------------------
(* search() over its argument space: any query, weight overrides, a cut-off *)
(* of one, in processes that iterate string sets in either order            *)

MaxHitsArgs == 1    \* longest hit list of a channel in these invocations

ArgQueries == Queries \cup ClassifierQueries \cup {QEmpty}
WeightArgs == {<<NoWeight, NoWeight>>, <<Rat(1, 2), Rat(1, 2)>>,
               <<NoWeight, Rat(9, 10)>>, <<Rat(3, 10), NoWeight>>}

InitArgs ==
    /\ hashOrder \in HashOrders
    /\ pc = "idle"
    /\ args = NoArgs
    /\ semantic_hits = <<>>
    /\ bm25_hits = <<>>
    /\ candidates = <<>>
    /\ resolved = <<>>
    /\ results = <<>>
    /\ response = None
    /\ vendorCache = None
    /\ gapLog = <<>>
    /\ env = NoEnv
    /\ calls = 0
    /\ hist = NoHist
    /\ ConcIdle

InvokeArgs == Invoke("search", MaxHitsArgs, {1, FINAL_TOP_K}, ArgQueries, WeightArgs)
NextArgs == InvokeArgs \/ Stage1 \/ Stage2 \/ Stage3 \/ Return
SpecArgs == InitArgs /\ [][NextArgs]_vars

-----------------------------------------------------------------------------
(* Properties of search() *)

SemanticFailed == env.semantic.kind \in {"no_collection", "embed_raises", "query_raises"}
Bm25Failed == env.bm25.kind \in {"no_index", "load_raises", "score_raises"}
HasHits(outcome) == outcome.kind = "ok" /\ outcome.ids # <<>>
SeqRange(seq) == {seq[i] : i \in 1..Len(seq)}
PastStage1 == pc \in {"resolve", "rerank", "assess", "returned", "raised"}
ChannelRaised ==
    pc = "raised" /\ response.raised \in {"embed_raises", "query_raises",
                                          "load_raises", "score_raises"}

\* C3: when exactly one of the two channels fails (semantic: collection lookup,
\* embedding call or vector query; keyword: missing index or scoring error) and
\* the other returns hits, search() does not raise and its candidates are the
\* hits of the surviving channel.
C3_SingleChannelDegrades ==
    (args.api = "search" /\ PastStage1
        /\ \/ SemanticFailed /\ HasHits(env.bm25)
           \/ Bm25Failed /\ HasHits(env.semantic))
    => /\ ~ChannelRaised
       /\ IdsOf(candidates) = IF SemanticFailed THEN SeqRange(env.bm25.ids)
                              ELSE SeqRange(env.semantic.ids)

Resolved == PastStage1 /\ env.store # None
DistinctParentIds(rs) == \A i, j \in 1..Len(rs) : i # j => rs[i].parent_id # rs[j].parent_id

\* C5: whatever the parent store does (present, missing, failing on fetch),
\* _resolve_parents returns at most as many results as its candidates have
\* distinct parent_ids, no parent_id appears twice in its output, and the list
\* search() returns has at most one result per parent_id.
C5_OnePerParent ==
    Resolved =>
        /\ Len(resolved) <= Cardinality({ParentIdOf(candidates[i]) : i \in 1..Len(candidates)})
        /\ DistinctParentIds(resolved)
        /\ DistinctParentIds(results)

UsedScore(r) == IF args.use_reranker THEN r.rerank_score ELSE r.combined_score
SearchReturned == args.api = "search" /\ pc = "returned"

\* the parent store did not give the text of r's parent
Unresolved(r) == env.store \in {"missing", "fetch_raises"} \/ r.parent_id \notin env.have

\* C11: when the parent store cannot resolve a parent id (collection missing,
\* fetch raising, id absent from the fetch result) _resolve_parents does not
\* raise, gives the candidate its child's text as parent_text, and records a
\* degradation signal for it.
C11_FallbackSignalled ==
    Resolved =>
        /\ pc = "raised" => env.reranker # None
        /\ \A i \in 1..Len(resolved) :
              Unresolved(resolved[i]) =>
                  /\ resolved[i].parent_text = ChildText[resolved[i].child_id]
                  /\ ParentNotFound \in SeqRange(env.console)

RerankerDown == env.reranker \in {"model_load_raises", "predict_raises"}

\* C12: when the cross-encoder is unavailable (model load or predict raises)
\* or the caller passes use_reranker = False, search() skips the rerank stage
\* without raising and every result's rerank_score equals its combined_score.
C12_RerankSkipped ==
    (args.api = "search" /\ pc \in {"returned", "raised"} /\ env.store # None
        /\ (RerankerDown \/ ~args.use_reranker))
    => /\ pc = "returned"
       /\ \A i \in 1..Len(results) :
              results[i].rerank_score = results[i].combined_score

SearchFinished == args.api = "search" /\ pc \in {"returned", "raised"}

\* C18: a missing child collection, BM25 index file or parent collection is
\* not surfaced as an error.  The channel of a missing child collection or
\* index file returns no hits and prints its message; with the parent
\* collection missing every candidate keeps its child text and the message is
\* printed.  What search() returns is the plain result list, and the only
\* exceptions that reach the caller are those of the embedding call, the
\* vector query, the index load, the scoring and the cross-encoder.
C18_MissingReferenceDegrades ==
    SearchFinished =>
        /\ env.semantic.kind = "no_collection" =>
              /\ semantic_hits = <<>>
              /\ ChildNotFound \in SeqRange(env.console)
        /\ (env.bm25.kind = "no_index" /\ ~Raises(env.semantic)) =>
              /\ bm25_hits = <<>>
              /\ IndexNotFound \in SeqRange(env.console)
        /\ env.store = "missing" =>
              /\ ParentNotFound \in SeqRange(env.console)
              /\ \A i \in 1..Len(resolved) :
                    resolved[i].parent_text = ChildText[resolved[i].child_id]
        /\ pc = "returned" => response = [results |-> results]
        /\ pc = "raised" =>
              /\ response.raised \in {"embed_raises", "query_raises", "load_raises",
                                       "score_raises", "model_load_raises",
                                       "predict_raises"}
              /\ response.raised \in {"embed_raises", "query_raises"}
                    => env.semantic.kind = response.raised
              /\ response.raised \in {"load_raises", "score_raises"}
                    => env.bm25.kind = response.raised

\* C18 as stated: a missing child collection, parent collection or BM25 index
\* reaches the caller as an explicit error.
C18_MissingReferenceRaises ==
    (SearchFinished /\ (env.semantic.kind = "no_collection" \/ env.bm25.kind = "no_index"
                         \/ env.store = "missing"))
    => pc = "raised"

\* the child collection and the parent collection are missing: the keyword
\* hits come back with their child texts
C18_Witness ==
    /\ SearchFinished
    /\ pc = "returned"
    /\ env.semantic.kind = "no_collection"
    /\ env.store = "missing"
    /\ Len(results) = 2
    /\ env.console = <<ChildNotFound, ParentNotFound>>

\* C19: search() with a child collection that does not exist and a BM25 index
\* path that does not exist returns an empty list and does not raise.
C19_NothingThereIsEmpty ==
    (args.api = "search" /\ PastStage1
        /\ env.semantic.kind = "no_collection" /\ env.bm25.kind = "no_index")
    => /\ pc = "returned"
       /\ results = <<>>
       /\ response = [results |-> <<>>]

C19_Witness ==
    /\ SearchReturned
    /\ env.semantic.kind = "no_collection"
    /\ env.bm25.kind = "no_index"
    /\ args.query = QGeneral
    /\ env.console = <<ChildNotFound, IndexNotFound>>

\* C6: the list search() returns is non-increasing in the score it was ordered
\* by (rerank_score with the reranker, combined_score without), after
\* deduplication, truncation and rounding.
C6_NonIncreasing ==
    SearchReturned =>
        \A i, j \in 1..Len(results) : i < j => UsedScore(results[i]) >= UsedScore(results[j])

\* the reranker reversed the fused order of the two results that survive a
\* truncation to top_k
C6_Witness ==
    /\ SearchReturned
    /\ args.use_reranker
    /\ Len(resolved) > Len(results)
    /\ Len(results) = 2
    /\ results[1].rerank_score > results[2].rerank_score
    /\ results[1].combined_score < results[2].combined_score

-----------------------------------------------------------------------------
(* Properties of verified_query() *)

NoHits(outcome) == ~HasHits(outcome)
Finished == args.api = "verified_query" /\ pc \in {"returned", "raised"}

\* C4: when both channels fail or return no hits, verified_query returns
\* normally with empty results, confidence LOW and a non-empty reasoning; no
\* exception reaches the caller.
C4_BothChannelsEmpty ==
    (Finished /\ NoHits(env.semantic) /\ NoHits(env.bm25))
    => /\ pc = "returned"
       /\ response.results = <<>>
       /\ response.confidence.level = "LOW"
       /\ response.confidence.reasoning # ""

C10_SinkFailureAbsorbed ==
    (Finished /\ env.sink = "open_raises") => pc = "returned"

-----------------------------------------------------------------------------
(* Worker threads in the lazy getters, and an index rebuild beside them.    *)
(* The server runs each request's verified_query() on a thread-pool thread; *)
(* a thread can be switched out between any two steps of a getter.          *)

MaxRebuilds == 2    \* runs of build_bm25_index
IndexChunks == 2    \* writes pickle.dump needs to put the whole index on disk

Threads == {"t1", "t2"}

\* the getters a verified_query() passes, in order: _semantic_search
\* (_get_chroma, _get_openai), _bm25_search (_get_bm25_index),
\* _resolve_parents (_get_chroma), _rerank (_get_cross_encoder),
\* _detect_vendor (_vendor_patterns_cache)
AccessOrder == <<"chroma", "openai", "bm25", "chroma", "cross_encoder",
                 "vendor_patterns">>

\* "if _x is None" / "if cache_key not in _bm25_data" / "if
\* _vendor_patterns_cache is None"
IsLoaded(h) == IF h = "vendor_patterns" THEN vendorCache # None ELSE handles[h].set

FileComplete == indexFile.exists /\ indexFile.written = IndexChunks
FilePartial == indexFile.exists /\ indexFile.written < IndexChunks

InitThreads ==
    /\ hashOrder = <<"c1", "c2", "c3", "c4", "c5">>
    /\ pc = "idle"
    /\ args = NoArgs
    /\ semantic_hits = <<>>
    /\ bm25_hits = <<>>
    /\ candidates = <<>>
    /\ resolved = <<>>
    /\ results = <<>>
    /\ response = None
    /\ vendorCache = None
    /\ gapLog = <<>>
    /\ env = NoEnv
    /\ calls = 0
    /\ hist = NoHist
    /\ handles = [h \in Handles |-> Unset]
    /\ loads = [h \in Handles \cup {"vendor_patterns"} |-> 0]
    /\ threads = [t \in Threads |-> [at |-> 1, step |-> "check", value |-> 0,
                                     observed |-> None]]
    /\ indexFile \in {NoFile, [exists |-> TRUE, version |-> 1, written |-> IndexChunks]}
    /\ builder = [pc |-> "idle", rebuilds |-> 0]
    /\ bm25_data = <<>>
    /\ disk = <<>>

Advance(t) == [threads EXCEPT ![t].at = @ + 1, ![t].step = "check", ![t].value = 0]

\* the test at the top of a getter
Check(t) ==
    /\ threads[t].step = "check"
    /\ threads[t].at <= Len(AccessOrder)
    /\ threads' = IF IsLoaded(AccessOrder[threads[t].at])
                  THEN Advance(t)
                  ELSE [threads EXCEPT ![t].step = "load"]
    /\ UNCHANGED <<hashOrder, pc, args, locals, response, vendorCache, gapLog, env,
                   calls, hist, handles, loads, indexFile, builder, bm25_data, disk>>

\* the right-hand side of the getter's assignment: the client constructor,
\* CrossEncoder(...), _load_vendor_patterns(), or load_bm25_index(), which
\* returns None without a file and unpickles whatever the file holds
Load(t) ==
    LET h == AccessOrder[threads[t].at]
    IN  /\ threads[t].step = "load"
        /\ loads' = [loads EXCEPT ![h] = @ + 1]
        /\ IF h = "bm25" /\ FilePartial
           THEN threads' = [threads EXCEPT ![t].step = "raised",
                                           ![t].observed = "truncated"]
           ELSE IF h = "bm25"
           THEN threads' = [threads EXCEPT ![t].step = "store",
                                           ![t].value = indexFile.version,
                                           ![t].observed = "complete"]
           ELSE threads' = [threads EXCEPT ![t].step = "store", ![t].value = 1]
        /\ UNCHANGED <<hashOrder, pc, args, locals, response, vendorCache, gapLog,
                       env, calls, hist, handles, indexFile, builder, bm25_data, disk>>

\* the assignment to the global
Store(t) ==
    LET h == AccessOrder[threads[t].at]
    IN  /\ threads[t].step = "store"
        /\ IF h = "vendor_patterns"
           THEN /\ \E loaded \in VendorLoads : vendorCache' = loaded
                /\ UNCHANGED handles
           ELSE /\ handles' = [handles EXCEPT ![h] = [set |-> TRUE,
                                                      value |-> threads[t].value]]
                /\ UNCHANGED vendorCache
        /\ threads' = Advance(t)
        /\ UNCHANGED <<hashOrder, pc, args, locals, response, gapLog, env, calls,
                       hist, loads, indexFile, builder, bm25_data, disk>>

\* build_bm25_index reaches open(index_path, "wb"): the file exists and is empty
BeginRebuild ==
    /\ builder.pc = "idle"
    /\ builder.rebuilds < MaxRebuilds
    /\ builder' = [pc |-> "writing", rebuilds |-> builder.rebuilds + 1]
    /\ indexFile' = [exists |-> TRUE, version |-> indexFile.version + 1, written |-> 0]
    /\ UNCHANGED <<hashOrder, pc, args, locals, response, vendorCache, gapLog, env,
                   calls, hist, handles, loads, threads, bm25_data, disk>>

\* pickle.dump writes the next part of the index; the with block closes the
\* file after the last one
WriteChunk ==
    /\ builder.pc = "writing"
    /\ indexFile' = [indexFile EXCEPT !.written = @ + 1]
    /\ builder' = [builder EXCEPT !.pc = IF indexFile.written + 1 = IndexChunks
                                         THEN "idle" ELSE "writing"]
    /\ UNCHANGED <<hashOrder, pc, args, locals, response, vendorCache, gapLog, env,
                   calls, hist, handles, loads, threads, bm25_data, disk>>

NextThreads ==
    \/ \E t \in Threads : Check(t) \/ Load(t) \/ Store(t)
    \/ BeginRebuild
    \/ WriteChunk
SpecThreads == InitThreads /\ [][NextThreads]_vars

\* C13: under concurrent first access each lazily initialized handle (vector
\* store client, embedding client, BM25 index, cross-encoder, vendor pattern
\* list) is loaded at most once.
C13_LoadedOnce == \A h \in DOMAIN loads : loads[h] <= 1

\* C14: while build_bm25_index rewrites the index no concurrent query observes
\* a half-rebuilt index: what a query loads is a complete index, old or new.
C14_NoHalfRebuiltIndex ==
    \A t \in Threads : threads[t].observed # "truncated"

-----------------------------------------------------------------------------
(* Properties of search() over its argument space *)

\* the list search() returns to the invocation in flight in a process whose
\* sets iterate in order, the collaborators answering as they did
SearchOutcome(order) ==
    LET sem    == SemanticHits(env.semantic.ids, "near")
        bm     == IF NoTokens(args.query) THEN <<>> ELSE Bm25Hits(env.bm25.ids, "strong")
        merged == MergeIn(order, sem, bm, RERANK_CANDIDATES, env.weights[1], env.weights[2])
        res    == _resolve_parents(merged, [kind |-> env.store, have |-> env.have])
    IN  IF merged = <<>> THEN <<>>
        ELSE IF args.use_reranker
        THEN CleanResults(_rerank(res, args.top_k, PredictOf(env.reranker)))
        ELSE CleanResults(NoRerank(res, args.top_k))

\* C15: search() is a pure function of its arguments and the channel state:
\* the same arguments against the same semantic hits, keyword index, parent
\* store and reranker scores give the same result list, cut-offs and order of
\* tied candidates included, in whatever process and after whatever earlier
\* invocation.
C15_PureFunction ==
    SearchReturned => \A order \in HashOrders : results = SearchOutcome(order)

Passed(w) == w # NoWeight
WeightsChosen == args.api = "search" /\ PastStage1

IsOne(r) == r.n = r.d /\ r.d # 0
Classified ==
    WeightsChosen /\ ~Passed(args.semantic_weight) /\ ~Passed(args.bm25_weight)

\* C17: the classifier returns (0.25, 0.75) for a query in which a
\* specification pattern matches and (0.60, 0.40) for any other; the two
\* weights add up to 1; classifying the same query again gives the same pair.
C17_Classifier ==
    Classified =>
        /\ env.weights \in {<<Rat(1, 4), Rat(3, 4)>>, <<Rat(3, 5), Rat(2, 5)>>}
        /\ (env.weights = <<Rat(1, 4), Rat(3, 4)>>) <=>
              args.query \in {QIso, "nas 1638 class 6", "DHP-1234 element",
                              "10 micron element", "to 12345"}
        /\ IsOne(RAdd(env.weights[1], env.weights[2]))
        /\ _adaptive_weights(args.query) = env.weights

\* a lower-case standard reference is classified as a specification query
C17_Witness ==
    /\ Classified
    /\ args.query = "nas 1638 class 6"
    /\ env.weights = <<Rat(1, 4), Rat(3, 4)>>
    /\ pc = "returned"

\* C20: for the empty query each channel returns no hits without calling its
\* external dependency (no embedding request, no BM25 scoring), and search()
\* returns an empty list instead of raising.
C20_EmptyQueryShortCircuits ==
    (args.api = "search" /\ args.query = QEmpty /\ PastStage1)
    => /\ "embeddings.create" \notin env.called
       /\ "bm25.get_scores" \notin env.called
       /\ semantic_hits = <<>> /\ bm25_hits = <<>>
       /\ pc # "raised"
       /\ pc = "returned" => results = <<>>

-----------------------------------------------------------------------------
(* _merge_results over its own argument space: a cut-off small enough to    *)
(* bite, the weights of the classifier and those of --semantic-only and     *)
(* --bm25-only                                                              *)

MaxFusionSem == 3   \* longest semantic hit list in these fusions
MaxFusionBm  == 2   \* longest keyword hit list in these fusions

MaxCandidates == {2, RERANK_CANDIDATES}
FusionWeights == {<<NoWeight, NoWeight>>, <<Rat(1, 1), Rat(0, 1)>>,
                  <<Rat(0, 1), Rat(1, 1)>>}

InitFusion ==
    /\ hashOrder \in HashOrders
    /\ pc = "merge"
    /\ \E q \in Queries, w \in FusionWeights, m \in MaxCandidates :
           args = [query |-> q, semantic_weight |-> w[1], bm25_weight |-> w[2],
                   max_candidates |-> m]
    /\ \E ids \in IdLists(MaxFusionSem) : semantic_hits = SemanticHits(ids, "near")
    /\ \E ids \in IdLists(MaxFusionBm) : bm25_hits = Bm25Hits(ids, "strong")
    /\ candidates = <<>>
    /\ resolved = <<>>
    /\ results = <<>>
    /\ response = None
    /\ vendorCache = None
    /\ gapLog = <<>>
    /\ env = NoEnv
    /\ calls = 0
    /\ hist = NoHist
    /\ ConcIdle

FuseArgs ==
    /\ pc = "merge"
    /\ LET w == SearchWeights(args.query, args.semantic_weight, args.bm25_weight)
       IN  /\ candidates' = _merge_results(semantic_hits, bm25_hits,
                                           args.max_candidates, w[1], w[2])
           /\ env' = [env EXCEPT !.weights = w]
    /\ pc' = "merged"
    /\ UNCHANGED <<hashOrder, args, semantic_hits, bm25_hits, resolved, results,
                   response, vendorCache, gapLog, calls, hist, conc>>

SpecFusion == InitFusion /\ [][FuseArgs]_vars

Merged == pc = "merged"
REq(a, b) == a.n * b.d = b.n * a.d

\* the 1-indexed position of cid in a hit list, len + 1 when it is not there
PositionOrPenalty(hits, cid) ==
    IF \E i \in 1..Len(hits) : hits[i].child_id = cid
    THEN CHOOSE i \in 1..Len(hits) : hits[i].child_id = cid
    ELSE Len(hits) + 1

ChildIds(hits) == [i \in 1..Len(hits) |-> hits[i].child_id]

\* C24: every fused item has combined_score = semantic_weight/(60 + rank in
\* the semantic list) + bm25_weight/(60 + rank in the keyword list), a rank
\* being the 1-indexed position, or len(list) + 1 for an absent item; an item
\* first in both lists under (0.6, 0.4) scores 1/61.
C24_CombinedScore ==
    Merged =>
        \A i \in 1..Len(candidates) :
            LET c  == candidates[i]
                rs == PositionOrPenalty(semantic_hits, c.child_id)
                rb == PositionOrPenalty(bm25_hits, c.child_id)
            IN  /\ REq(c.combined_score,
                       RAdd(Rat(env.weights[1].n, env.weights[1].d * (60 + rs)),
                            Rat(env.weights[2].n, env.weights[2].d * (60 + rb))))
                /\ (rs = 1 /\ rb = 1 /\ env.weights = <<Rat(3, 5), Rat(2, 5)>>
                    /\ semantic_hits # <<>> /\ bm25_hits # <<>>)
                   => REq(c.combined_score, Rat(1, 61))

\* one item first in both lists under the default weights, another absent
\* from the keyword list
C24_Witness ==
    /\ Merged
    /\ env.weights = <<Rat(3, 5), Rat(2, 5)>>
    /\ ChildIds(semantic_hits) = <<"c1", "c2", "c3">>
    /\ ChildIds(bm25_hits) = <<"c1", "c4">>
    /\ Len(candidates) = 4
    /\ candidates[1].child_id = "c1"
    /\ REq(candidates[1].combined_score, Rat(1, 61))

Positive(w) == w.n > 0

FusedIds == IdsOf(semantic_hits) \cup IdsOf(bm25_hits)

\* C26: _merge_results returns at most max_candidates candidates (search()
\* leaves it at RERANK_CANDIDATES = 20), no child_id twice, and no item it
\* leaves out has a combined_score strictly greater than a returned one.
C26_TopCandidates ==
    Merged =>
        /\ Len(candidates) <= args.max_candidates
        /\ Len(candidates) = Min(args.max_candidates, Cardinality(FusedIds))
        /\ \A i, j \in 1..Len(candidates) :
               i # j => candidates[i].child_id # candidates[j].child_id
        /\ \A i \in 1..Len(candidates) : candidates[i].child_id \in FusedIds
        /\ \A cid \in FusedIds \ IdsOf(candidates) :
               \A i \in 1..Len(candidates) :
                   ~RLess(candidates[i].combined_score,
                          RAdd(RDivInt(env.weights[1],
                                       60 + PositionOrPenalty(semantic_hits, cid)),
                               RDivInt(env.weights[2],
                                       60 + PositionOrPenalty(bm25_hits, cid))))

\* five items fused, three of them cut off
C26_Witness ==
    /\ Merged
    /\ Cardinality(FusedIds) = 5
    /\ args.max_candidates = 2
    /\ Len(candidates) = 2

-----------------------------------------------------------------------------
(* Properties of parent resolution and of the cut at top_k *)

Siblings(pid) == {j \in 1..Len(candidates) : ParentIdOf(candidates[j]) = pid}

RerankScoreOf(r) == Sigmoid(Predict(env.reranker, r.parent_text))
ReturnedParents == {results[i].parent_id : i \in 1..Len(results)}

\* C28: search() returns at most top_k results; with the reranker the cut
\* comes after the re-sort, so the results are the top_k resolved candidates
\* by rerank_score: no resolved candidate left out has a rerank_score strictly
\* greater than a returned one.
C28_TopKAfterRerank ==
    SearchReturned =>
        /\ Len(results) <= args.top_k
        /\ Len(results) = Min(args.top_k, Len(resolved))
        /\ args.use_reranker =>
              \A i, j \in 1..Len(resolved) :
                  (resolved[i].parent_id \notin ReturnedParents
                   /\ resolved[j].parent_id \in ReturnedParents)
                  => ~RLess(RerankScoreOf(resolved[j]), RerankScoreOf(resolved[i]))

\* four resolved candidates, top_k = 2: the last in fused order is returned
\* and the first is cut
C28_Witness ==
    /\ SearchReturned
    /\ args.use_reranker
    /\ args.top_k = 2
    /\ Len(resolved) = 4
    /\ Len(results) = 2
    /\ resolved[4].parent_id \in ReturnedParents
    /\ resolved[1].parent_id \notin ReturnedParents

-----------------------------------------------------------------------------
(* verified_query() without the reranker *)

Unranked == Finished /\ ~args.use_reranker

\* the scores of a call without the reranker: rerank_score is combined_score,
\* at most 1/61 before rounding and 0.0164 after, below the MEDIUM threshold
FusedScoresOnly ==
    /\ \A i \in 1..Len(resolved) : RLeq(resolved[i].combined_score, Rat(1, 61))
    /\ \A i \in 1..Len(results) :
          /\ results[i].rerank_score = results[i].combined_score
          /\ results[i].rerank_score <= Round4(Rat(1, 61))
          /\ results[i].rerank_score < MEDIUM_CONFIDENCE_THRESHOLD

-----------------------------------------------------------------------------
(* Vendor detection *)

Sources == {MetaSource[c] : c \in Children}

\* the labels of the patterns that match source and have no matching pattern
\* before them: one label, or none
EarliestMatch(patterns, source) ==
    {patterns[i].vendor :
        i \in {k \in 1..Len(patterns) :
                  /\ source \in patterns[k].matches
                  /\ \A j \in 1..(k - 1) : source \notin patterns[j].matches}}

FirstMatchWins ==
    vendorCache # None =>
        /\ \A source \in Sources :
              LET vendor == _detect_vendor(vendorCache, source)
              IN  IF EarliestMatch(vendorCache, source) = {}
                  THEN vendor = None
                  ELSE EarliestMatch(vendorCache, source) = {vendor}
        /\ (Finished /\ pc = "returned") =>
              \A i \in 1..Len(results) :
                  /\ response.citations[i][2] = "Pall - Catalog"
                        <=> EarliestMatch(vendorCache, results[i].source) = {"Pall"}
                  /\ response.citations[i][2] = "Hydac - Filters"
                        <=> EarliestMatch(vendorCache, results[i].source) = {"Hydac"}

\* C23: _detect_vendor returns the label of the earliest pattern of the
\* registry that matches the source, and no label when none matches; the
\* pattern list, once loaded, is the same list in the same order on every
\* later call.
C23_FirstMatchWins ==
    /\ []FirstMatchWins
    /\ [][vendorCache # None => vendorCache' = vendorCache]_vars

\* the second call reuses the loaded registry: a source that both patterns
\* match is cited under the label of the first
C23_Witness ==
    /\ Finished
    /\ pc = "returned"
    /\ calls = 2
    /\ vendorCache # None
    /\ vendorCache = VendorRegistry
    /\ Len(results) = 1
    /\ results[1].source = "pall_catalog.pdf"
    /\ Cardinality({i \in 1..Len(vendorCache) :
                       "pall_catalog.pdf" \in vendorCache[i].matches}) = 2
    /\ response.citations[1][2] = "Pall - Catalog"
    /\ response.confidence.dominant_vendor = "Pall"

-----------------------------------------------------------------------------
(* One process serving two verticals, any number of search() calls one     *)
(* after another, while ingestion builds or rebuilds the verticals' BM25    *)
(* indexes                                                                  *)

MaxBuilds == 2          \* builds of one vertical's index
MaxVerticalHits == 1    \* longest hit list of a channel in these invocations

Verticals == {"hydraulic_filtration", "spray_nozzles"}

\* _load_vertical: collection names and index path of a vertical
VerticalConfig(v) ==
    IF v = "hydraulic_filtration"
    THEN [child_collection  |-> "hydraulic_filtration-children",
          parent_collection |-> "hydraulic_filtration-parents",
          bm25_index_path   |-> "/repo/vector-store/bm25/hydraulic_filtration.pkl"]
    ELSE [child_collection  |-> "spray_nozzles-children",
          parent_collection |-> "spray_nozzles-parents",
          bm25_index_path   |-> "/repo/vector-store/bm25/spray_nozzles.pkl"]

IndexPaths == {VerticalConfig(v).bm25_index_path : v \in Verticals}

\* the ids a Chroma collection holds, by collection name
CollectionChunks(name) ==
    CASE name = "hydraulic_filtration-children" -> {"c1", "c2", "c3"}
      [] name = "spray_nozzles-children"        -> {"c4", "c5"}
      [] name = "hydraulic_filtration-parents"  -> {"p1", "p2"}
      [] OTHER                                  -> {"p3"}

\* the ids in the pickle at path after its n-th build: the first build ran
\* before the last chunk of the collection was ingested
IndexFileContent(path, n) ==
    IF path = "/repo/vector-store/bm25/hydraulic_filtration.pkl"
    THEN (IF n <= 1 THEN {"c1", "c2"} ELSE {"c1", "c2", "c3"})
    ELSE (IF n <= 1 THEN {"c4"} ELSE {"c4", "c5"})

\* slip: one cache entry for every path
CacheKeySingle(bm25_index_path) == "default"

\* cache_key = str(bm25_index_path or "default")
CacheKey(bm25_index_path) ==
    IF bm25_index_path = None THEN "default" ELSE bm25_index_path

CacheKeys == {"default"} \cup IndexPaths

NotFound == [found |-> FALSE, path |-> "", version |-> 0]

\* load_bm25_index: None without a file, else what the file holds
load_bm25_index(path) ==
    IF disk[path].exists
    THEN [found |-> TRUE, path |-> path, version |-> disk[path].version]
    ELSE NotFound

\* slip: an entry that holds None is loaded again
GetBm25IndexRetriesNone(data, bm25_index_path) ==
    LET cache_key == CacheKey(bm25_index_path)
    IN  IF ~data[cache_key].set \/ ~data[cache_key].value.found
        THEN [data EXCEPT ![cache_key] =
                 [set |-> TRUE, value |-> load_bm25_index(bm25_index_path)]]
        ELSE data

\* _bm25_data after _get_bm25_index(bm25_index_path) ran on data
_get_bm25_index(data, bm25_index_path) ==
    LET cache_key == CacheKey(bm25_index_path)
    IN  IF ~data[cache_key].set
        THEN [data EXCEPT ![cache_key] =
                 [set |-> TRUE, value |-> load_bm25_index(bm25_index_path)]]
        ELSE data

ListsOver(S, maxLen) ==
    {ids \in IdLists(maxLen) : \A i \in 1..Len(ids) : ids[i] \in S}

InitVerticals ==
    /\ hashOrder = <<"c1", "c2", "c3", "c4", "c5">>
    /\ pc = "idle"
    /\ args = NoArgs
    /\ semantic_hits = <<>>
    /\ bm25_hits = <<>>
    /\ candidates = <<>>
    /\ resolved = <<>>
    /\ results = <<>>
    /\ response = None
    /\ vendorCache = None
    /\ gapLog = <<>>
    /\ env = NoEnv
    /\ calls = 0
    /\ hist = NoHist
    /\ handles = [h \in Handles |-> Unset]
    /\ loads = [k \in CacheKeys |-> 0]
    /\ threads = <<>>
    /\ indexFile = NoFile
    /\ builder = [pc |-> "idle", rebuilds |-> 0]
    /\ bm25_data = [k \in CacheKeys |-> Unset]
    /\ disk \in [IndexPaths -> {NoFile, [exists |-> TRUE, version |-> 1,
                                          written |-> IndexChunks]}]

\* search(query, child_collection=, parent_collection=, bm25_index_path=) for
\* vertical v, from its first line to its return
SearchVertical(v) ==
    LET cfg   == VerticalConfig(v)
        key   == CacheKey(cfg.bm25_index_path)
        data  == _get_bm25_index(bm25_data, cfg.bm25_index_path)
        index == data[key].value
    IN  /\ pc \in {"idle", "returned"}
        /\ \E q \in {QGeneral},
              sem \in ListsOver(CollectionChunks(cfg.child_collection), MaxVerticalHits),
              bm \in IF index.found
                     THEN ListsOver(IndexFileContent(index.path, index.version),
                                    MaxVerticalHits)
                     ELSE {<<>>} :
            \E w \in {SearchWeights(q, NoWeight, NoWeight)},
               shits \in {SemanticHits(sem, "near")},
               bhits \in {Bm25Hits(bm, "strong")},
               store \in {StoreOk(CollectionChunks(cfg.parent_collection))} :
            \E merged \in {_merge_results(shits, bhits, RERANK_CANDIDATES, w[1], w[2])} :
            \E res \in {IF merged = <<>> THEN <<>> ELSE _resolve_parents(merged, store)} :
            \E out \in {CleanResults(NoRerank(res, FINAL_TOP_K))} :
                /\ args' = [api |-> "search", query |-> q, top_k |-> FINAL_TOP_K,
                            use_reranker |-> FALSE,
                            semantic_weight |-> NoWeight, bm25_weight |-> NoWeight,
                            child_collection  |-> cfg.child_collection,
                            parent_collection |-> cfg.parent_collection,
                            bm25_index_path   |-> cfg.bm25_index_path]
                /\ env' = [NoEnv EXCEPT
                              !.semantic = [kind |-> "ok", ids |-> sem],
                              !.bm25 = [kind |-> IF index.found THEN "ok" ELSE "no_index",
                                        ids |-> bm],
                              !.console = IF index.found THEN <<>> ELSE <<IndexNotFound>>,
                              !.weights = w]
                /\ semantic_hits' = shits
                /\ bm25_hits' = bhits
                /\ candidates' = merged
                /\ resolved' = res
                /\ results' = out
                /\ response' = [results |-> out]
        /\ bm25_data' = data
        /\ loads' = [loads EXCEPT ![key] = IF bm25_data[key].set THEN @ ELSE @ + 1]
        /\ pc' = "returned"
        /\ UNCHANGED <<hashOrder, vendorCache, gapLog, calls, hist, handles, threads,
                       indexFile, builder, disk>>

\* build_bm25_index(child_collection_name, bm25_output_path) for vertical v,
\* run to its end
BuildIndex(v) ==
    LET path == VerticalConfig(v).bm25_index_path
    IN  /\ disk[path].version < MaxBuilds
        /\ disk' = [disk EXCEPT ![path] = [exists |-> TRUE, version |-> @.version + 1,
                                           written |-> IndexChunks]]
        /\ UNCHANGED <<hashOrder, pc, args, locals, response, vendorCache, gapLog, env,
                       calls, hist, handles, loads, threads, indexFile, builder,
                       bm25_data>>

NextVerticals == \E v \in Verticals : SearchVertical(v) \/ BuildIndex(v)
SpecVerticals == InitVerticals /\ [][NextVerticals]_vars

VerticalReturned == pc = "returned" /\ args.api = "search"

\* every chunk the pickle at path has held
EverIndexed(path) == UNION {IndexFileContent(path, n) : n \in 1..MaxBuilds}

\* C21: whatever searches and builds came before, a search called with (child
\* collection C, parent collection Q, index path P) returns only results that
\* derive from chunks of C and of the index loaded from P, with parents from Q.
C21_VerticalsIsolated ==
    VerticalReturned =>
        LET own == CollectionChunks(args.child_collection)
                   \cup EverIndexed(args.bm25_index_path)
        IN  /\ IdsOf(semantic_hits) \subseteq CollectionChunks(args.child_collection)
            /\ IdsOf(bm25_hits) \subseteq EverIndexed(args.bm25_index_path)
            /\ bm25_data[CacheKey(args.bm25_index_path)].set
            /\ bm25_data[CacheKey(args.bm25_index_path)].value.path
                  \in {"", args.bm25_index_path}
            /\ IdsOf(candidates) \subseteq own
            /\ Len(results) = Len(resolved)
            /\ \A i \in 1..Len(results) :
                  /\ resolved[i].child_id \in own
                  /\ results[i].child_text = ChildText[resolved[i].child_id]
                  /\ results[i].parent_id
                        \in CollectionChunks(args.parent_collection) \cup own

\* a search for the nozzle vertical, after a filtration search that loaded
\* the filtration index, answers from both of the nozzle vertical's channels
C21_Witness ==
    /\ VerticalReturned
    /\ args.child_collection = "spray_nozzles-children"
    /\ bm25_data["/repo/vector-store/bm25/hydraulic_filtration.pkl"].set
    /\ bm25_data["/repo/vector-store/bm25/hydraulic_filtration.pkl"].value.found
    /\ IdsOf(semantic_hits) = {"c5"}
    /\ IdsOf(bm25_hits) = {"c4"}
    /\ Len(results) = 2

CachedFor(path) == bm25_data[CacheKey(path)]

-----------------------------------------------------------------------------
(* search() with a metadata_filter *)

MaxFilterHits == 2      \* longest hit list of a channel in these invocations

\* metadata.section_header of the child chunks
SectionHeader ==
    [c \in Children |->
        CASE c = "c1" -> "Beta Ratio" [] c = "c2" -> "Introduction"
          [] c = "c3" -> "Beta Ratings" [] OTHER -> "Cleanliness Codes"]

\* substrings of the section headers that a filter names
Contains(header, word) ==
    word = "Beta" /\ header \in {"Beta Ratio", "Beta Ratings"}

\* metadata_filter: None, {"source": "pall_catalog.pdf"},
\* {"section_header": {"$contains": "Beta"}}, {"source": {"$ne": "pall_catalog.pdf"}}
NoFilter == [key |-> "", op |-> "none", value |-> ""]
MetadataFilters ==
    {NoFilter,
     [key |-> "source", op |-> "equals", value |-> "pall_catalog.pdf"],
     [key |-> "section_header", op |-> "$contains", value |-> "Beta"],
     [key |-> "source", op |-> "$ne", value |-> "pall_catalog.pdf"]}

FieldOf(c, key) == IF key = "source" THEN MetaSource[c] ELSE SectionHeader[c]

\* the meaning of the filter: what Chroma's where clause selects
Satisfies(c, f) ==
    CASE f.op = "none"      -> TRUE
      [] f.op = "equals"    -> FieldOf(c, f.key) = f.value
      [] f.op = "$contains" -> Contains(FieldOf(c, f.key), f.value)
      [] OTHER              -> FieldOf(c, f.key) # f.value

\* the post-hoc loop of _bm25_search: a hit is skipped only for a key whose
\* filter value is a str and differs from the chunk's; a dict value (an
\* operator clause) is passed over
PostHocKeeps(c, f) ==
    IF f.op = "none" THEN TRUE
    ELSE IF f.op = "equals" THEN FieldOf(c, f.key) = f.value
    ELSE TRUE

RECURSIVE SelectSeqBy(_, _)
SelectSeqBy(ids, f) ==
    IF ids = <<>> THEN <<>>
    ELSE LET rest == SelectSeqBy(Tail(ids), f)
         IN  IF PostHocKeeps(Head(ids), f) THEN <<Head(ids)>> \o rest ELSE rest

InitFilter ==
    /\ hashOrder = <<"c1", "c2", "c3", "c4", "c5">>
    /\ pc = "idle"
    /\ args = NoArgs
    /\ semantic_hits = <<>>
    /\ bm25_hits = <<>>
    /\ candidates = <<>>
    /\ resolved = <<>>
    /\ results = <<>>
    /\ response = None
    /\ vendorCache = None
    /\ gapLog = <<>>
    /\ env = NoEnv
    /\ calls = 0
    /\ hist = NoHist
    /\ ConcIdle

\* search(query, use_reranker=False, metadata_filter=f) from its first line
\* to its return: Chroma answers with chunks its where clause selects, or
\* rejects the clause; the keyword hits are the top scoring documents that
\* pass the post-hoc loop
SearchFiltered ==
    /\ pc = "idle"
    /\ \E q \in Queries, f \in MetadataFilters, top \in IdLists(MaxFilterHits) :
       \E so \in {[kind |-> "ok", ids |-> ids] :
                     ids \in {l \in IdLists(MaxFilterHits) :
                                 \A i \in 1..Len(l) : Satisfies(l[i], f)}}
                 \cup (IF f.op = "$contains"
                       THEN {[kind |-> "query_raises", ids |-> <<>>]} ELSE {}) :
        \E w \in {SearchWeights(q, NoWeight, NoWeight)},
           shits \in {SemanticHits(so.ids, "near")},
           bhits \in {Bm25Hits(SelectSeqBy(top, f), "strong")} :
        \E merged \in {_merge_results(shits, bhits, RERANK_CANDIDATES, w[1], w[2])} :
        \E res \in {IF merged = <<>> THEN <<>>
                    ELSE _resolve_parents(merged, StoreOk(Parents))} :
        \E out \in {CleanResults(NoRerank(res, FINAL_TOP_K))} :
            /\ args' = [api |-> "search", query |-> q, top_k |-> FINAL_TOP_K,
                        use_reranker |-> FALSE,
                        semantic_weight |-> NoWeight, bm25_weight |-> NoWeight,
                        metadata_filter |-> f]
            /\ env' = [NoEnv EXCEPT !.semantic = so,
                                    !.bm25 = [kind |-> "ok", ids |-> top],
                                    !.weights = w]
            /\ IF Raises(so)
               THEN /\ pc' = "raised"
                    /\ response' = [raised |-> so.kind]
                    /\ UNCHANGED locals
               ELSE /\ pc' = "returned"
                    /\ semantic_hits' = shits
                    /\ bm25_hits' = bhits
                    /\ candidates' = merged
                    /\ resolved' = res
                    /\ results' = out
                    /\ response' = [results |-> out]
    /\ UNCHANGED <<hashOrder, vendorCache, gapLog, calls, hist, conc>>

SpecFilter == InitFilter /\ [][SearchFiltered]_vars

\* C22: every result of a search called with a metadata_filter satisfies the
\* filter, whichever channel found it and whatever the form of the filter.
C22_ResultsSatisfyFilter ==
    (pc = "returned" /\ args.api = "search") =>
        /\ Len(results) = Len(resolved)
        /\ \A i \in 1..Len(resolved) : Satisfies(resolved[i].child_id, args.metadata_filter)

=============================================================================
